---- MODULE Spec2Model ----
(***************************************************************************)
(* HargassnerTelnetClient (telnet_client.py) and the coordinator's use of  *)
(* it (coordinator.py) as a state machine.                                 *)
(*                                                                         *)
(* The client runs on one asyncio event loop: code between two awaits is   *)
(* atomic.  Every action below is one such segment: it resumes a coroutine *)
(* at the await it is suspended on and runs it to its next await.  The     *)
(* receiver task's position (tasks[t].pc) is the await it is suspended on: *)
(*   "new"            created by create_task, not yet run       (line 89)  *)
(*   "connecting"     await open_connection                     (line 197) *)
(*   "closing_stale"  await wait_closed, called from line 134   (line 237) *)
(*   "closing_dead"   await wait_closed, called from line 175   (line 237) *)
(*   "closing_err"    await wait_closed, called from line 183   (line 237) *)
(*   "sleeping"       await asyncio.sleep(reconnect_delay)      (line 186) *)
(*   "reading"        await wait_for(reader.read)               (line 140) *)
(*   "done"           the task has finished                                *)
(* Time is kept as the age of last_update (datetime.now() - last_update),  *)
(* which is all the code reads of the clock; it saturates one tick above   *)
(* the staleness timeout.  While last_update is None the code reads no     *)
(* clock, and the age kept is that of the connection.                      *)
(***************************************************************************)
EXTENDS Integers, Sequences, FiniteSets, TLC

VARIABLES
    self,          \* the client object's fields (lines 44-77)
    socks,         \* the state of every socket a handle refers to: "closed" (or none) / "open"
    leaked,        \* sockets still open that no handle refers to any more
    heap,          \* the dict objects reachable from the client and the coordinator
    coord_data,    \* coordinator.data: a reference into heap, or None
    tasks,         \* the receiver tasks ever spawned
    stop,          \* the async_stop coroutine in progress
    start,         \* the async_start coroutine in progress
    since_update,  \* ticks since last_update was written (since the connect while it is None)
    peer_good,     \* the peer accepts every connection and sends a parseable frame on every read
    hist           \* history: what happened, read only by the properties

vars == <<self, socks, leaked, heap, coord_data, tasks, stop, start, since_update, peer_good, hist>>

\* ---------------------------------------------------------------- bounds
MaxLeaks == 1      \* the count of leaked sockets saturates here
MaxCount == 1      \* the statistics counters saturate here
MaxLines == 2      \* lines in one received chunk

\* ------------------------------------------------------ program constants
\* const.py is not part of the sources; the values are scaled to small ones
\* that keep their order (base < max, max no power of two times base).
TELNET_RECONNECT_DELAY == 1
TELNET_MAX_RECONNECT_DELAY == 3
TELNET_MAX_CONSECUTIVE_TIMEOUTS == 2
TELNET_DATA_STALENESS_TIMEOUT == 1
StartPolls == 2

None == 0
\* Two tasks exist at a time at most (one cancelled and ending, one spawned
\* since), and two sockets are referred to at most (the client's handles, a
\* pending read's reader): the slots of ended tasks and of closed sockets
\* are used again.
TaskIds == 1..2
SockIds == 1..2
ObjIds == 1..3

Min(a, b) == IF a < b THEN a ELSE b
Inc(x) == IF x < MaxCount THEN x + 1 ELSE x

\* ------------------------------------------------------------------ maps
\* A dict is the set of its <<key, value>> items.
EmptyMap == {}
SetItem(d, k, v) == {p \in d : p[1] # k} \cup {<<k, v>>}
FreeObj == [live |-> FALSE, map |-> EmptyMap]

\* ------------------------------------------------------------ the parser
\* message_parser.py is an external collaborator: parse(line) returns a
\* ParameterMap, returns nothing, or raises.
PmLines == {"pmA", "pmEmpty", "pmRaise"}
Lines == PmLines \cup {"junk"}
parse_message(line) ==
    CASE line = "pmA" -> [kind |-> "map", map |-> {<<"temp", "A">>}]
      [] line = "pmEmpty" -> [kind |-> "none", map |-> EmptyMap]
      [] OTHER -> [kind |-> "raise", map |-> EmptyMap]

RECURSIVE SeqsUpTo(_, _)
SeqsUpTo(S, n) ==
    IF n = 0 THEN {<<>>}
    ELSE LET shorter == SeqsUpTo(S, n - 1)
         IN shorter \cup {Append(q, x) : q \in {r \in shorter : Len(r) = n - 1}, x \in S}
Chunks == SeqsUpTo(Lines, MaxLines) \ {<<>>}
EngineChunks == {<<"pmA">>, <<"junk">>}
FaultChunks == EngineChunks \cup {<<"pmRaise">>, <<"pmEmpty">>}

Listeners == {"coordinator", "observer"}
\* Listeners a host may register besides: one that unregisters itself when
\* it is called, one that unregisters the coordinator's, one that raises.
HostListeners == {"oneshot", "evictor", "faulty"}

\* ------------------------------------------------------------------ Init
InitSelf ==
    [running |-> FALSE, connected |-> FALSE, reader |-> None, writer |-> None,
     receiver_task |-> None,
     reconnect_delay |-> TELNET_RECONNECT_DELAY,
     consecutive_timeouts |-> 0,
     latest_data |-> 1,
     last_update |-> FALSE,
     stats |-> [messages_received |-> 0, messages_parsed |-> 0, parse_errors |-> 0,
                reconnections |-> 0, last_error |-> "None"],
     data_callbacks |-> <<"coordinator">>]

InitHist ==
    [event |-> "none",        \* the last step of a receiver task ("other" too after a call
                              \* of the registry, which ends the history of the last chunk)
     chunk |-> <<>>,          \* the last chunk handed to _process_data
     parsed |-> <<>>,         \* the indexes of its lines the parser was called on
     stored |-> <<>>,         \* the indexes of its lines that were stored
     calls |-> <<>>,          \* the listeners invoked for it, in order
     heard |-> <<>>,          \* the registry when its dispatch began
     late |-> FALSE,          \* it was read later than the staleness timeout after the last
                              \* parse (after the connect, while nothing was ever parsed)
     produced |-> EmptyMap,   \* the map the parser returned for the last stored line
     conn_calls |-> <<>>,     \* the values delivered to connection-state listeners
     fails |-> 0,             \* failed connects in a row since the delay was base (-1: not
                              \* from base, or the loop was stopped since)
     timeouts_since |-> 0,    \* read timeouts since the last read, connect or disconnect
     dead_connects |-> -1,    \* connect attempts since a dead-connection close, up to the next
                              \* read: -1 no such close, 2 several, 3 one of them failed
     last_call |-> "none"]    \* the host's last call of async_start / async_stop

Init ==
    /\ self = InitSelf
    /\ socks = [s \in SockIds |-> "closed"]
    /\ leaked = 0
    /\ heap = [o \in ObjIds |-> IF o = 1 THEN [live |-> TRUE, map |-> EmptyMap] ELSE FreeObj]
    /\ coord_data = None
    /\ tasks = [t \in TaskIds |-> [pc |-> "none", cancelled |-> FALSE, rsock |-> None]]
    /\ stop = [pc |-> "idle", awaited |-> None]
    /\ start = [pc |-> "idle", polls |-> 0]
    /\ since_update = 0
    /\ peer_good = FALSE
    /\ hist = InitHist

\* The fields one segment of code may write, carried through the operators
\* that model the code and committed by the action.
Bundle ==
    [self |-> self, socks |-> socks, heap |-> heap, coord |-> coord_data,
     since |-> since_update, hist |-> hist]

\* Objects nothing refers to are dropped and the rest renumbered: the store's
\* dict is object 1, the coordinator's is object 1 too when it is the same
\* dict and object 2 when it is another.
Shared(m) == m.coord = m.self.latest_data
Collect(m) ==
    [o \in ObjIds |->
        IF o = 1 THEN m.heap[m.self.latest_data]
        ELSE IF o = 2 /\ m.coord # None /\ ~Shared(m) THEN m.heap[m.coord]
        ELSE FreeObj]

\* The sockets some handle refers to once the step is done, tk being the tasks then.
Referred(m, tk) == {m.self.reader, m.self.writer} \cup {tk[t].rsock : t \in DOMAIN tk}
Lost(m, tk) == {s \in DOMAIN m.socks : m.socks[s] = "open" /\ s \notin Referred(m, tk)}

Write(m, tk) ==
    /\ self' = [m.self EXCEPT !.latest_data = 1]
    /\ tasks' = tk
    /\ socks' = [s \in DOMAIN m.socks |-> IF s \in Lost(m, tk) THEN "closed" ELSE m.socks[s]]
    /\ leaked' = IF leaked + Cardinality(Lost(m, tk)) > MaxLeaks THEN MaxLeaks
                 ELSE leaked + Cardinality(Lost(m, tk))
    /\ heap' = Collect(m)
    /\ coord_data' = IF m.coord = None THEN None ELSE IF Shared(m) THEN 1 ELSE 2
    /\ since_update' = m.since
    /\ hist' = m.hist

\* The segment's result is computed once, then written.
Commit(m, tk) == \E done \in {m} : Write(done, tk)


\* ------------------------------------------------------ _close_connection
\* Lines 234-237: writer.close() closes the socket at once, then the
\* coroutine awaits wait_closed(); with no writer it only clears the flag.
CloseBegin(m) ==
    IF m.self.writer # None
    THEN [m |-> [m EXCEPT !.socks[m.self.writer] = "closed"], awaits |-> TRUE]
    ELSE [m |-> [m EXCEPT !.self.connected = FALSE], awaits |-> FALSE]

\* Lines 238-244, resumed after wait_closed() (whether it returned or raised).
CloseEnd(m) ==
    [m EXCEPT !.self.writer = None, !.self.reader = None, !.self.connected = FALSE]

\* Lines 240-242 alone: the finally clause, run when the await is cancelled.
CloseCancelled(m) ==
    [m EXCEPT !.self.writer = None, !.self.reader = None]

\* ------------------------------------------------------------ the registry
InSeq(x, q) == \E i \in 1..Len(q) : q[i] = x
Remove(q, x) == SelectSeq(q, LAMBDA y : y # x)

\* Lines 316-323.
register_callback(cbs, l) == IF InSeq(l, cbs) THEN cbs ELSE Append(cbs, l)
\* Lines 325-332.
unregister_callback(cbs, l) == IF InSeq(l, cbs) THEN Remove(cbs, l) ELSE cbs

\* ----------------------------------------------------------- _process_data
\* A listener called with the dict `ref` (lines 290-294).  The coordinator's
\* _handle_data_update (coordinator.py 54-69) writes "_connection" into the
\* dict it was handed and keeps it as coordinator.data.
Invoke(l, m, ref) ==
    LET m1 == [m EXCEPT !.hist.calls = Append(@, l)]
    IN CASE l = "coordinator" ->
              [m1 EXCEPT !.heap[ref].map = SetItem(@, "_connection", "meta"),
                         !.coord = ref]
         [] l = "oneshot" ->
              [m1 EXCEPT !.self.data_callbacks = unregister_callback(@, "oneshot")]
         [] l = "evictor" ->
              [m1 EXCEPT !.self.data_callbacks = unregister_callback(@, "coordinator")]
         \* "faulty" raises an Exception, caught at line 293
         [] OTHER -> m1

\* for callback in self._data_callbacks: the list is read at every step.
RECURSIVE Dispatch(_, _, _)
Dispatch(m, ref, i) ==
    IF i > Len(m.self.data_callbacks) THEN m
    ELSE Dispatch(Invoke(m.self.data_callbacks[i], m, ref), ref, i + 1)

\* Lines 283-287: the parser's dict itself becomes _latest_data.
Store(m, ref, d) ==
    [m EXCEPT !.heap[ref] = [live |-> TRUE, map |-> d],
              !.self.latest_data = ref,
              !.self.last_update = TRUE,
              !.since = 0,
              !.self.stats.messages_parsed = Inc(@),
              !.hist.produced = d,
              !.hist.heard = m.self.data_callbacks]

NewObj(m) == CHOOSE o \in ObjIds : o \notin {m.self.latest_data, m.coord}
                                    /\ \A q \in ObjIds : q < o => q \in {m.self.latest_data, m.coord}

IsCandidate(line) == line \in PmLines

\* A faulty variant of ProcessLines, the `break` of line 297 left out: the
\* loop goes on to the lines after the one it stored.
RECURSIVE ProcessLinesNoBreak(_, _, _)
ProcessLinesNoBreak(m, lines, i) ==
    IF i > Len(lines) THEN m
    ELSE IF ~IsCandidate(lines[i]) THEN ProcessLinesNoBreak(m, lines, i + 1)
    ELSE LET res == parse_message(lines[i])
             m1 == [m EXCEPT !.hist.parsed = Append(@, i)]
         IN CASE res.kind = "raise" ->
                   ProcessLinesNoBreak([m1 EXCEPT !.self.stats.parse_errors = Inc(@)],
                                       lines, i + 1)
              [] res.kind = "none" -> ProcessLinesNoBreak(m1, lines, i + 1)
              [] OTHER ->
                   LET ref == NewObj(m1)
                   IN ProcessLinesNoBreak(
                          Dispatch(Store([m1 EXCEPT !.hist.stored = Append(@, i)],
                                         ref, res.map), ref, 1),
                          lines, i + 1)

\* Lines 272-301: the loop over the lines of one chunk.
RECURSIVE ProcessLines(_, _, _)
ProcessLines(m, lines, i) ==
    IF i > Len(lines) THEN m
    ELSE IF ~IsCandidate(lines[i]) THEN ProcessLines(m, lines, i + 1)
    ELSE LET res == parse_message(lines[i])
             m1 == [m EXCEPT !.hist.parsed = Append(@, i)]
         IN CASE res.kind = "raise" ->
                   ProcessLines([m1 EXCEPT !.self.stats.parse_errors = Inc(@)], lines, i + 1)
              [] res.kind = "none" -> ProcessLines(m1, lines, i + 1)
              [] OTHER ->
                   \* stored and dispatched, then `break`
                   LET ref == NewObj(m1)
                   IN Dispatch(Store([m1 EXCEPT !.hist.stored = Append(@, i)], ref, res.map),
                               ref, 1)

\* Lines 246-305.  The chunk is modelled decoded and split: latin-1 decodes
\* every byte string, so decoding never fails.
process_data(m, chunk) ==
    ProcessLines([m EXCEPT !.self.stats.messages_received = Inc(@),
                           !.hist.chunk = chunk,
                           !.hist.parsed = <<>>,
                           !.hist.stored = <<>>,
                           !.hist.calls = <<>>], chunk, 1)

\* get_latest_data (lines 307-314): a new dict with the same items.
get_latest_data(m) ==
    LET ref == NewObj(m)
    IN [m |-> [m EXCEPT !.heap[ref] = [live |-> TRUE, map |-> m.heap[m.self.latest_data].map]],
        ref |-> ref]

\* ----------------------------------------------------------- _receiver_loop
RECURSIVE Pow2(_)
Pow2(n) == IF n = 0 THEN 1 ELSE 2 * Pow2(n - 1)

\* The failure count saturates once the delay is capped for good.
FailCap ==
    1 + CHOOSE k \in 0..16 :
            /\ TELNET_RECONNECT_DELAY * Pow2(k) >= TELNET_MAX_RECONNECT_DELAY
            /\ \A j \in 0..(k - 1) : TELNET_RECONNECT_DELAY * Pow2(j) < TELNET_MAX_RECONNECT_DELAY

FromBase(m) == IF m.self.reconnect_delay = TELNET_RECONNECT_DELAY THEN 0 ELSE -1

\* Lines 125-127.
IsStale(m) == m.self.last_update /\ m.since > TELNET_DATA_STALENESS_TIMEOUT

\* `continue` with the connected flag cleared: lines 118-122 up to the await
\* in _connect.
Reconnect(m) ==
    IF ~m.self.running THEN [m |-> m, pc |-> "done"] ELSE [m |-> m, pc |-> "connecting"]

\* Lines 124-143, entered with the connected flag set: the staleness check,
\* then the read.
StaleCheck(m) ==
    IF IsStale(m)
    THEN LET c == CloseBegin([m EXCEPT !.self.stats.last_error = "stale",
                                       !.self.connected = FALSE,
                                       !.hist.timeouts_since = 0])
         IN IF c.awaits THEN [m |-> c.m, pc |-> "closing_stale"] ELSE Reconnect(c.m)
    ELSE IF m.self.reader # None THEN [m |-> m, pc |-> "reading"]
    ELSE [m |-> m, pc |-> "spin"]

\* Lines 118-143: one pass from `while self._running` to the next await.
LoopTop(m) ==
    IF ~m.self.running THEN [m |-> m, pc |-> "done"]
    ELSE IF ~m.self.connected THEN [m |-> m, pc |-> "connecting"]
    ELSE StaleCheck(m)

\* A faulty variant of ExceptPath: the exception recorded and raised
\* again, which ends the task.
ExceptPathRaises(m, err) ==
    [m |-> [m EXCEPT !.self.stats.last_error = err, !.self.connected = FALSE],
     pc |-> "done"]

\* Lines 178-186: the handler of any exception, up to its next await.
ExceptPath(m, err) ==
    LET c == CloseBegin([m EXCEPT !.self.stats.last_error = err,
                                  !.self.connected = FALSE,
                                  !.self.consecutive_timeouts = 0,
                                  !.hist.timeouts_since = 0])
    IN [m |-> c.m, pc |-> IF c.awaits THEN "closing_err" ELSE "sleeping"]

\* A faulty variant of Backoff: the delay doubled without the cap.
BackoffNoCap(d) == d * 2

\* Lines 187-190.
Backoff(d) == Min(d * 2, TELNET_MAX_RECONNECT_DELAY)

\* Lines 197-200 and 218-220: open_connection returned socket s.
ConnectOk(m, s) ==
    [m EXCEPT !.self.reader = s, !.self.writer = s, !.socks[s] = "open",
              !.self.connected = TRUE,
              !.self.consecutive_timeouts = 0,
              !.self.stats.reconnections = Inc(@),
              !.since = IF m.self.last_update THEN @ ELSE 0,
              !.hist.timeouts_since = 0]

\* A faulty variant of ReadEmpty: the connected flag left set.
ReadEmptyKeepsFlag(m) ==
    [m EXCEPT !.self.consecutive_timeouts = 0, !.hist.timeouts_since = 0]

\* Lines 145-149: the read returned no bytes.
ReadEmpty(m) ==
    [m EXCEPT !.self.connected = FALSE, !.self.consecutive_timeouts = 0,
              !.hist.timeouts_since = 0]

\* A faulty variant of ReadData: the delay not reset to the base.
ReadDataNoReset(m, chunk) ==
    [process_data(m, chunk) EXCEPT !.self.consecutive_timeouts = 0,
                                    !.hist.timeouts_since = 0,
                                    !.hist.fails = 0]

\* Lines 151-156: the read returned a chunk.
ReadData(m, chunk) ==
    [process_data(m, chunk) EXCEPT !.self.reconnect_delay = TELNET_RECONNECT_DELAY,
                                    !.self.consecutive_timeouts = 0,
                                    !.hist.timeouts_since = 0,
                                    !.hist.fails = 0]

\* A faulty variant of ReadTimeout: the dead connection handled as any
\* other exception, with the backoff sleep.
ReadTimeoutBacksOff(m) ==
    IF m.self.consecutive_timeouts + 1 >= TELNET_MAX_CONSECUTIVE_TIMEOUTS
    THEN ExceptPath([m EXCEPT !.hist.event = "dead", !.hist.dead_connects = 0], "dead")
    ELSE LoopTop([m EXCEPT !.self.consecutive_timeouts = @ + 1,
                           !.hist.timeouts_since =
                               Min(@ + 1, TELNET_MAX_CONSECUTIVE_TIMEOUTS)])

\* Lines 158-176: the read timed out.
ReadTimeout(m) ==
    LET n == m.self.consecutive_timeouts + 1
        m1 == [m EXCEPT !.self.consecutive_timeouts = n,
                        !.hist.timeouts_since = Min(@ + 1, TELNET_MAX_CONSECUTIVE_TIMEOUTS)]
    IN IF n >= TELNET_MAX_CONSECUTIVE_TIMEOUTS
       THEN LET c == CloseBegin([m1 EXCEPT !.self.stats.last_error = "dead",
                                           !.self.connected = FALSE,
                                           !.self.consecutive_timeouts = 0,
                                           !.hist.timeouts_since = 0,
                                           !.hist.dead_connects = 0,
                                           !.hist.event = "dead"])
            IN IF c.awaits THEN [m |-> c.m, pc |-> "closing_dead"] ELSE LoopTop(c.m)
       ELSE LoopTop(m1)

\* ------------------------------------------------------ the receiver task
Alive(t) == tasks[t].pc \notin {"none", "done"}
\* The event loop runs what is ready in the order it was scheduled: the
\* wakeup of a cancelled task was scheduled before any step of a task
\* spawned after the cancel.
Ending(t) == Alive(t) /\ tasks[t].cancelled
Runs(t) == Alive(t) /\ ~tasks[t].cancelled /\ \A q \in TaskIds : ~Ending(q)

SockFree(s) ==
    /\ socks[s] = "closed"
    /\ s \notin {self.reader, self.writer}
    /\ \A t \in TaskIds : tasks[t].rsock # s
NewSock == CHOOSE s \in SockIds : SockFree(s) /\ \A q \in SockIds : q < s => ~SockFree(q)

Step(t, r) ==
    /\ \E at \in {r} :
          Write(at.m, [tasks EXCEPT ![t].pc = at.pc,
                                    ![t].rsock = IF at.pc = "reading" THEN at.m.self.reader
                                                 ELSE None])
    /\ UNCHANGED <<stop, start, peer_good>>

\* A step of a task: the history of the last chunk is that of this step.
Ev(m, e) ==
    [m EXCEPT !.hist.event = e, !.hist.chunk = <<>>, !.hist.parsed = <<>>,
              !.hist.stored = <<>>, !.hist.calls = <<>>, !.hist.heard = <<>>,
              !.hist.late = FALSE]

CountAttempt(m, failed) ==
    IF m.hist.dead_connects < 0 THEN m
    ELSE [m EXCEPT !.hist.dead_connects = IF failed \/ @ = 3 THEN 3 ELSE Min(@ + 1, 2)]

\* The task's first run.
TaskBegin(t) ==
    /\ Runs(t) /\ tasks[t].pc = "new"
    /\ Step(t, LoopTop(Ev(Bundle, "other")))

\* _connect resumed with the outcome of open_connection (lines 197-230).
ConnectDone(t, outcome) ==
    /\ Runs(t) /\ tasks[t].pc = "connecting"
    /\ peer_good => outcome = "ok"
    /\ outcome \in {"ok", "sockopt"} => \E s \in SockIds : SockFree(s)
    /\ LET m == Bundle
       IN CASE outcome = "ok" ->
                 \E made \in {[ConnectOk(CountAttempt(Ev(m, "conn_ok"), FALSE), NewSock)
                                  EXCEPT !.hist.fails = FromBase(m)]} :
                     Step(t, StaleCheck(made))
            [] outcome = "sockopt" ->
                 \* setsockopt raised OSError after the handles were assigned
                 Step(t, ExceptPath(
                     [CountAttempt(Ev(m, "conn_fail"), TRUE)
                         EXCEPT !.self.reader = NewSock, !.self.writer = NewSock,
                                !.socks[NewSock] = "open",
                                !.hist.fails = IF @ < 0 THEN @ ELSE Min(@ + 1, FailCap)],
                     "connect_failed"))
            [] OTHER ->
                 Step(t, ExceptPath(
                     [CountAttempt(Ev(m, "conn_fail"), TRUE)
                         EXCEPT !.hist.fails = IF @ < 0 THEN @ ELSE Min(@ + 1, FailCap)],
                     IF outcome = "timeout" THEN "connect_timeout" ELSE "connect_failed"))

\* _close_connection resumed after wait_closed (lines 238-244), back in the loop.
CloseDone(t) ==
    /\ Runs(t) /\ tasks[t].pc \in {"closing_stale", "closing_dead", "closing_err"}
    /\ LET m == CloseEnd(Ev(Bundle, "other"))
       IN IF tasks[t].pc = "closing_err"
          THEN Step(t, [m |-> m, pc |-> "sleeping"])
          ELSE Step(t, LoopTop(m))

\* The backoff sleep is over (lines 186-190).
SleepDone(t) ==
    /\ Runs(t) /\ tasks[t].pc = "sleeping"
    /\ Step(t, LoopTop([Ev(Bundle, "other") EXCEPT !.self.reconnect_delay = Backoff(@)]))

ReadStarted(m) == [m EXCEPT !.hist.dead_connects = -1]

\* The read resumed (lines 140-176).  A socket closed on this side yields
\* no data any more.
ReadDone(t, outcome, chunk) ==
    /\ Runs(t) /\ tasks[t].pc = "reading"
    /\ peer_good => outcome = "data" /\ chunk = <<"pmA">>
    /\ outcome \in {"data", "timeout"} => socks[tasks[t].rsock] = "open"
    /\ LET m == ReadStarted(Bundle)
       IN CASE outcome = "empty" -> Step(t, LoopTop(ReadEmpty(Ev(m, "eof"))))
            [] outcome = "data" ->
                 \E read \in {ReadData(
                         [Ev(m, "data") EXCEPT
                             !.hist.late = m.since > TELNET_DATA_STALENESS_TIMEOUT], chunk)} :
                     Step(t, LoopTop(read))
            [] outcome = "timeout" -> Step(t, ReadTimeout(Ev(m, "other")))
            [] OTHER -> Step(t, ExceptPath([Ev(m, "other") EXCEPT !.hist.fails = -1],
                                           "read_error"))

\* A cancelled task ends at the await it is suspended on: CancelledError is
\* no Exception, so only the finally clause of _close_connection runs.
TaskCancelled(t) ==
    /\ Alive(t) /\ tasks[t].cancelled
    /\ Commit(IF tasks[t].pc \in {"closing_stale", "closing_dead", "closing_err"}
              THEN CloseCancelled(Ev(Bundle, "other"))
              ELSE Ev(Bundle, "other"),
              [tasks EXCEPT ![t] = [pc |-> "done", cancelled |-> FALSE, rsock |-> None]])
    /\ UNCHANGED <<stop, start, peer_good>>

\* --------------------------------------------------------------- async_start
TaskFree(t) == tasks[t].pc \in {"none", "done"} /\ stop.awaited # t
FreeTask == CHOOSE t \in TaskIds : TaskFree(t) /\ \A q \in TaskIds : q < t => ~TaskFree(q)

\* Lines 81-96, up to the first await.  A call while running returns at once.
AsyncStartCall ==
    /\ start.pc = "idle"
    /\ IF self.running
       THEN /\ hist' = [hist EXCEPT !.last_call = "start"]
            /\ UNCHANGED <<self, socks, leaked, heap, coord_data, tasks, stop, start,
                           since_update, peer_good>>
       ELSE /\ \E t \in TaskIds : TaskFree(t)
            /\ self' = [self EXCEPT !.running = TRUE, !.receiver_task = FreeTask]
            /\ tasks' = [tasks EXCEPT ![FreeTask].pc = "new"]
            /\ start' = IF self.connected THEN start ELSE [pc |-> "polling", polls |-> 1]
            /\ hist' = [hist EXCEPT !.last_call = "start", !.fails = FromBase(Bundle)]
            /\ UNCHANGED <<socks, leaked, heap, coord_data, stop, since_update, peer_good>>

\* A faulty variant of AsyncStartPoll: the poll loop without its bound.
AsyncStartPollUnbounded ==
    /\ start.pc = "polling"
    /\ start' = IF self.connected
                THEN [pc |-> "idle", polls |-> 0]
                ELSE [start EXCEPT !.polls = @ + 1]
    /\ UNCHANGED <<self, socks, leaked, heap, coord_data, tasks, stop, since_update,
                   peer_good, hist>>

\* Lines 92-98: one sleep of the poll loop is over.
AsyncStartPoll ==
    /\ start.pc = "polling"
    /\ start' = IF start.polls >= StartPolls \/ self.connected
                THEN [pc |-> "idle", polls |-> 0]
                ELSE [start EXCEPT !.polls = @ + 1]
    /\ UNCHANGED <<self, socks, leaked, heap, coord_data, tasks, stop, since_update,
                   peer_good, hist>>

\* ---------------------------------------------------------------- async_stop
\* A faulty variant of StopClose: async_stop returning without the close.
StopCloseSkipped(m) == [m |-> m, stop |-> [pc |-> "idle", awaited |-> None]]

\* Line 114 up to its await: _close_connection called by async_stop.
StopClose(m) ==
    LET c == CloseBegin(m)
    IN [m |-> c.m, stop |-> IF c.awaits THEN [pc |-> "closing", awaited |-> None]
                                        ELSE [pc |-> "idle", awaited |-> None]]

\* Lines 103-107: the task to cancel, None when there is nothing to cancel.
ToCancel ==
    IF self.receiver_task # None /\ tasks[self.receiver_task].pc # "done"
    THEN self.receiver_task ELSE None

\* Lines 102-114, up to the first await.
AsyncStopCall ==
    /\ stop.pc = "idle"
    /\ LET m == [Bundle EXCEPT !.self.running = FALSE, !.hist.last_call = "stop",
                               !.hist.fails = -1]
       IN IF ToCancel # None
          THEN /\ Commit(m, [tasks EXCEPT ![ToCancel].cancelled = TRUE])
               /\ stop' = [pc |-> "await_task", awaited |-> ToCancel]
          ELSE /\ Commit(StopClose(m).m, tasks)
               /\ stop' = StopClose(m).stop
    /\ UNCHANGED <<start, peer_good>>

\* Lines 109-114: the awaited task has ended.
AsyncStopTaskDone ==
    /\ stop.pc = "await_task" /\ tasks[stop.awaited].pc = "done"
    /\ Commit(StopClose(Bundle).m, tasks)
    /\ stop' = StopClose(Bundle).stop
    /\ UNCHANGED <<start, peer_good>>

\* Lines 238-244 in async_stop's call of _close_connection.
AsyncStopClosed ==
    /\ stop.pc = "closing"
    /\ Commit(CloseEnd(Bundle), tasks)
    /\ stop' = [pc |-> "idle", awaited |-> None]
    /\ UNCHANGED <<start, peer_good>>

\* ------------------------------------------------ the registry, called
RegisterCallback(l) ==
    /\ self' = [self EXCEPT !.data_callbacks = register_callback(@, l)]
    /\ hist' = Ev(Bundle, "other").hist
    /\ UNCHANGED <<socks, leaked, heap, coord_data, tasks, stop, start, since_update,
                   peer_good>>

UnregisterCallback(l) ==
    /\ self' = [self EXCEPT !.data_callbacks = unregister_callback(@, l)]
    /\ hist' = Ev(Bundle, "other").hist
    /\ UNCHANGED <<socks, leaked, heap, coord_data, tasks, stop, start, since_update,
                   peer_good>>

\* coordinator.py 91-110: _async_update_data writes "_connection" into the
\* dict get_latest_data returned, when that dict is not empty, and the
\* coordinator keeps the result as its data.
AsyncUpdateData ==
    /\ LET g == get_latest_data(Bundle)
       IN Commit([g.m EXCEPT !.heap[g.ref].map =
                                 IF @ # EmptyMap THEN SetItem(@, "_connection", "meta") ELSE @,
                             !.coord = g.ref], tasks)
    /\ UNCHANGED <<stop, start, peer_good>>

\* --------------------------------------------------------- the statistics
\* A faulty variant of statistics: the dict itself handed out.
statisticsAliased(m) == [aliased |-> TRUE, stats |-> m.self.stats]

\* The accessor (lines 344-347) returns self._stats.copy(): a new dict with
\* the same items.
statistics(m) == [aliased |-> FALSE, stats |-> m.self.stats]

\* A host that reads the statistics and zeroes the counters of the dict it
\* got: the client's own counters change only if it got the client's dict.
StatisticsMutated ==
    /\ self' = IF statistics(Bundle).aliased
               THEN [self EXCEPT !.stats.messages_received = 0,
                                 !.stats.messages_parsed = 0,
                                 !.stats.parse_errors = 0,
                                 !.stats.reconnections = 0]
               ELSE self
    /\ UNCHANGED <<socks, leaked, heap, coord_data, tasks, stop, start, since_update,
                   peer_good, hist>>

\* ------------------------------------------------------------ environment
Tick ==
    /\ since_update <= TELNET_DATA_STALENESS_TIMEOUT
    /\ since_update' = since_update + 1
    /\ UNCHANGED <<self, socks, leaked, heap, coord_data, tasks, stop, start, peer_good, hist>>

PeerRecovers ==
    /\ ~peer_good
    /\ peer_good' = TRUE
    /\ UNCHANGED <<self, socks, leaked, heap, coord_data, tasks, stop, start, since_update,
                   hist>>

ConnectOutcomes == {"ok", "timeout", "oserror", "sockopt"}
ReadOutcomes == {"data", "empty", "timeout", "error"}

LoopStep(t, chunks) ==
    \/ TaskBegin(t)
    \/ \E o \in ConnectOutcomes : ConnectDone(t, o)
    \/ CloseDone(t)
    \/ SleepDone(t)
    \/ \E o \in ReadOutcomes : \E c \in chunks : ReadDone(t, o, c)

TaskStep(t, chunks) ==
    \/ LoopStep(t, chunks)
    \/ TaskCancelled(t)

\* The connection engine: every outcome of every await, start and stop at
\* any time, the coordinator's listener registered.
Next ==
    \/ AsyncStartCall
    \/ AsyncStartPoll
    \/ AsyncStopCall
    \/ AsyncStopTaskDone
    \/ AsyncStopClosed
    \/ \E t \in TaskIds : TaskStep(t, EngineChunks)
    \/ StatisticsMutated
    \/ Tick

Spec == Init /\ [][Next]_vars

\* One life of the loop with every fault, the chunks the parser fails on as
\* well: started once (async_start still polling) and stopped at any time.
FaultNext ==
    \/ AsyncStartCall
    \/ AsyncStopCall
    \/ AsyncStopTaskDone
    \/ AsyncStopClosed
    \/ \E t \in TaskIds : TaskStep(t, FaultChunks)
    \/ Tick

FaultSpec == Init /\ [][FaultNext]_vars

\* The data path: a peer that accepts the connection and sends chunks of any
\* lines, listeners coming and going, the coordinator's fallback fetch.
DataNext ==
    \/ AsyncStartCall
    \/ \E l \in Listeners : RegisterCallback(l)
    \/ \E l \in Listeners : UnregisterCallback(l)
    \/ AsyncUpdateData
    \/ \E t \in TaskIds : TaskBegin(t)
    \/ \E t \in TaskIds : ConnectDone(t, "ok")
    \/ \E t \in TaskIds : \E c \in Chunks : ReadDone(t, "data", c)

DataSpec == Init /\ [][DataNext]_vars

\* The dispatch: a peer that sends one parseable frame per read, and a host
\* that registers and unregisters listeners of every kind between reads.
DispatchNext ==
    \/ AsyncStartCall
    \/ \E l \in Listeners \cup HostListeners : RegisterCallback(l)
    \/ \E l \in Listeners \cup HostListeners : UnregisterCallback(l)
    \/ \E t \in TaskIds : TaskBegin(t)
    \/ \E t \in TaskIds : ConnectDone(t, "ok")
    \/ \E t \in TaskIds : ReadDone(t, "data", <<"pmA">>)

DispatchSpec == Init /\ [][DispatchNext]_vars

\* The loop left running, with a peer that recovers for good at some point.
\* The event loop runs every ready task, and every await of the loop ends:
\* connect and read are bounded by TELNET_TIMEOUT, the sleep by its delay.
LiveNext ==
    \/ AsyncStartCall
    \/ AsyncStartPoll
    \/ \E t \in TaskIds : LoopStep(t, EngineChunks)
    \/ Tick
    \/ PeerRecovers

LiveSpec ==
    /\ Init /\ [][LiveNext]_vars
    /\ WF_vars(\E t \in TaskIds : LoopStep(t, EngineChunks))
    /\ WF_vars(AsyncStartPoll)

\* ================================================================ claims

\* C1 (checked under LiveSpec).  Recovery after staleness: once the loop has
\* closed the connection for staleness and the peer accepts connections and
\* sends parseable frames from then on, the loop eventually reads on a new
\* connection and stores a new reading.
StaleClosing == \E t \in TaskIds : tasks[t].pc = "closing_stale"
StoredNow == hist.event = "data" /\ hist.stored # <<>>
C1_RecoversAfterStaleness == (StaleClosing /\ peer_good) ~> StoredNow

\* C2.  Staleness without a parse: when a read has returned a chunk of which
\* nothing was stored, later than the staleness timeout after the last parse
\* (after the connect, when no frame was ever parsed), the loop has
\* disconnected in that pass: connected is false and the connection-state
\* listener was called with false.
UnparsedLateRead == hist.event = "data" /\ hist.stored = <<>> /\ hist.late
C2_StaleWithoutParse ==
    UnparsedLateRead
        => /\ ~self.connected
           /\ hist.conn_calls # <<>>
           /\ hist.conn_calls[Len(hist.conn_calls)] = FALSE

\* C3.  Every change of the connected flag calls the connection-state
\* listeners once with the new value.
C3_ConnectionListenerCalled ==
    [][self'.connected # self.connected
         => hist'.conn_calls = Append(hist.conn_calls, self'.connected)]_vars

\* C4 (checked under DataSpec).  The store is never aliased: whatever a
\* listener or a caller of get_latest_data does to the dict it got, the
\* store holds the map the parser produced for the last stored line.
C4_StoreHoldsParsedMap == heap[self.latest_data].map = hist.produced

\* C5, as stated.  For every received chunk with two or more 'pm' lines,
\* exactly one line is stored.
PmCount(chunk) == Cardinality({i \in DOMAIN chunk : IsCandidate(chunk[i])})
Accepted(chunk) ==
    {i \in DOMAIN chunk : IsCandidate(chunk[i]) /\ parse_message(chunk[i]).kind = "map"}
FirstAccepted(chunk) ==
    CHOOSE i \in Accepted(chunk) : \A j \in Accepted(chunk) : i <= j
NoDuplicates(q) == \A i, j \in DOMAIN q : q[i] = q[j] => i = j
ManyPmChunk == hist.event = "data" /\ PmCount(hist.chunk) >= 2
Schedule(n) == Min(TELNET_RECONNECT_DELAY * Pow2(n), TELNET_MAX_RECONNECT_DELAY)
BackingOff ==
    \E t \in TaskIds : Runs(t) /\ tasks[t].pc \in {"closing_err", "sleeping"}
C6_BackoffSchedule ==
    /\ hist.fails >= 0 =>
          self.reconnect_delay = IF BackingOff /\ hist.fails > 0
                                 THEN Schedule(hist.fails - 1)
                                 ELSE Schedule(hist.fails)
    /\ hist.event = "data" => self.reconnect_delay = TELNET_RECONNECT_DELAY
C6_Witness ==
    /\ hist.fails = FailCap /\ ~BackingOff
    /\ self.reconnect_delay = TELNET_MAX_RECONNECT_DELAY
    /\ self.stats.messages_received > 0

\* C7.  In every reachable state the reconnect delay lies in [base, max].
C7_DelayInRange ==
    /\ self.reconnect_delay >= TELNET_RECONNECT_DELAY
    /\ self.reconnect_delay <= TELNET_MAX_RECONNECT_DELAY
C7_Witness ==
    /\ self.reconnect_delay = TELNET_MAX_RECONNECT_DELAY
    /\ hist.last_call = "stop" /\ stop.pc = "idle"

\* C8.  Dead-connection detection: while connected the consecutive-timeout
\* counter is the number of read timeouts since the last read, connect or
\* disconnect; the pass that reaches the threshold closes the socket, clears
\* connected and resets the counter; after it, no second connect attempt
\* follows one that succeeded before the next read (a failed attempt is
\* tried again); the counter is in [0, threshold - 1] at every await, hence
\* at the start of every loop iteration.
C8_DeadConnectionDetection ==
    /\ self.connected => self.consecutive_timeouts = hist.timeouts_since
    /\ hist.event = "dead" =>
          /\ ~self.connected
          /\ self.consecutive_timeouts = 0
          /\ self.writer # None => socks[self.writer] = "closed"
    /\ hist.dead_connects # 2
    /\ self.consecutive_timeouts \in 0..(TELNET_MAX_CONSECUTIVE_TIMEOUTS - 1)

\* C9.  Peer close: the step in which a read returns zero bytes clears
\* connected, resets the consecutive-timeout counter, leaves the delay as it
\* was and suspends the loop in its next connect attempt, no sleep between.
EofStep == hist.event # "eof" /\ hist'.event = "eof"
C9_PeerClose ==
    [][EofStep =>
         /\ ~self'.connected
         /\ self'.consecutive_timeouts = 0
         /\ self'.reconnect_delay = self.reconnect_delay
         /\ \A t \in TaskIds :
               tasks[t].pc = "reading" /\ Runs(t) => tasks'[t].pc = "connecting"]_vars
C9_Witness ==
    /\ hist.event = "eof"
    /\ self.reconnect_delay > TELNET_RECONNECT_DELAY
    /\ \E t \in TaskIds : tasks[t].pc = "connecting"

\* C10.  Shutdown, for a call of async_stop with no async_start called since:
\* it returns from any state of the loop; when it has returned, running and
\* connected are false, no reader or writer handle is held and every
\* receiver task has ended; from then on, until the next async_start,
\* nothing changes the client, the store, the sockets or the coordinator's
\* data, another async_stop included.
Stopped == hist.last_call = "stop" /\ stop.pc = "idle"
C10_Shutdown ==
    /\ [](Stopped =>
            /\ ~self.running /\ ~self.connected
            /\ self.reader = None /\ self.writer = None
            /\ \A t \in TaskIds : ~Alive(t))
    /\ [][(Stopped /\ hist'.last_call = "stop") =>
             UNCHANGED <<self, socks, leaked, heap, coord_data, tasks, stop, hist>>]_vars
C10_Witness ==
    /\ Stopped
    /\ self.stats.messages_parsed > 0
    /\ \E t \in TaskIds : tasks[t].pc = "done"

\* C11 (checked under LiveSpec).  Startup: async_start always returns; it
\* sleeps StartPolls times at most and returns at the first poll that sees
\* connected true, or after the last one, the loop then still running with
\* its one task; a call while running spawns no second task.
LiveTasks == {t \in TaskIds : Alive(t)}
StartReturns == start.pc = "polling" /\ start'.pc = "idle"
C11_Startup ==
    /\ [](start.polls <= StartPolls)
    /\ [](self.running => Cardinality(LiveTasks) = 1)
    /\ (start.pc = "polling") ~> (start.pc = "idle")
    /\ [][StartReturns =>
             /\ self.connected \/ start.polls = StartPolls
             /\ self'.running /\ LiveTasks' = LiveTasks /\ LiveTasks # {}]_vars
C11_Witness ==
    /\ start.pc = "idle" /\ hist.last_call = "start"
    /\ self.running /\ ~self.connected /\ self.stats.reconnections = 0
    /\ \E t \in TaskIds : tasks[t].pc = "sleeping"

\* C12 (checked under DispatchSpec).  De-registration during dispatch: when
\* listeners unregister themselves or another listener while they are
\* invoked, every listener that was registered when the dispatch began and
\* was not removed is invoked exactly once, in registration order.
Dispatched == hist.event = "data" /\ hist.stored # <<>>
Removed ==
    (IF InSeq("oneshot", hist.calls) THEN {"oneshot"} ELSE {})
        \cup (IF InSeq("evictor", hist.calls) THEN {"coordinator"} ELSE {})
Kept(q) == SelectSeq(q, LAMBDA l : l \notin Removed)
C12_DeregistrationInDispatch == Dispatched => Kept(hist.calls) = Kept(hist.heard)

\* C13 (checked under DispatchSpec).  Listener fault isolation: when a data
\* listener raises during the dispatch, the listeners registered after it
\* (those not removed meanwhile) are still invoked in registration order,
\* the store holds the frame's items and last_update is set, parse_errors is
\* not incremented (no line of DispatchSpec's chunks fails to parse, so it
\* stays 0), connected stays true and the loop is suspended in its next read.
Index(q, x) == CHOOSE i \in DOMAIN q : q[i] = x
After(q, x) == SubSeq(q, Index(q, x) + 1, Len(q))
FaultyCalled == Dispatched /\ InSeq("faulty", hist.calls)
C13_ListenerFaultIsolation ==
    FaultyCalled =>
        /\ Kept(After(hist.calls, "faulty")) = Kept(After(hist.heard, "faulty"))
        /\ hist.produced \subseteq heap[self.latest_data].map
        /\ self.last_update
        /\ self.stats.parse_errors = 0
        /\ self.connected
        /\ \E t \in TaskIds : tasks[t].pc = "reading"

\* C14 (checked under DataSpec).  Parse-failure accounting: in the step that
\* processes a chunk, parse_errors grows by one for every 'pm' line the
\* parser was called on and failed, whether it returned nothing or raised
\* (up to the cap MaxCount of the counter); when no line is stored, the
\* stored map, last_update and messages_parsed are as before; connected is
\* as before and the loop is suspended in its next read.
ChunkStep ==
    /\ hist'.event = "data"
    /\ <<self, hist>>' # <<self, hist>>
    /\ hist'.last_call = hist.last_call /\ self'.running = self.running
FailedParses(h) ==
    Cardinality({k \in DOMAIN h.parsed : parse_message(h.chunk[h.parsed[k]]).kind # "map"})
C14_ParseFailureAccounting ==
    [][ChunkStep =>
         /\ self'.stats.parse_errors =
                Min(self.stats.parse_errors + FailedParses(hist'), MaxCount)
         /\ hist'.stored = <<>> =>
                /\ heap'[self'.latest_data] = heap[self.latest_data]
                /\ self'.last_update = self.last_update
                /\ self'.stats.messages_parsed = self.stats.messages_parsed
         /\ self'.connected = self.connected
         /\ \A t \in TaskIds : tasks[t].pc = "reading" => tasks'[t].pc = "reading"]_vars

\* C15 (checked under FaultSpec).  No connection fault escapes the loop:
\* whatever connects, reads, closes and parses do, a receiver task ends only
\* cancelled, which async_stop alone does; while running is true the task
\* the client holds is alive, suspended at one of the loop's awaits.
LoopAwaits ==
    {"new", "connecting", "closing_stale", "closing_dead", "closing_err", "sleeping",
     "reading"}
C15_NoFaultEscapes ==
    /\ [](self.running =>
            /\ self.receiver_task # None
            /\ tasks[self.receiver_task].pc \in LoopAwaits
            /\ ~tasks[self.receiver_task].cancelled)
    /\ [][\A t \in TaskIds :
            (Alive(t) /\ tasks'[t].pc = "done") => tasks[t].cancelled]_vars
C15_Witness ==
    /\ self.running /\ self.stats.parse_errors > 0
    /\ self.stats.last_error = "read_error"
    /\ \E t \in TaskIds : tasks[t].pc = "sleeping" /\ ~tasks[t].cancelled

\* C16.  The counters messages_received, messages_parsed, parse_errors and
\* reconnections never decrease, whatever happens, start after stop and a
\* host that writes into the dict the statistics accessor gave it included:
\* every step leaves each of them as it is or adds one (up to the cap).
Counters == {"messages_received", "messages_parsed", "parse_errors", "reconnections"}
C16_CountersMonotonic ==
    [][\A c \in Counters :
          \/ self'.stats[c] = self.stats[c]
          \/ self'.stats[c] = self.stats[c] + 1]_vars
C16_Witness ==
    /\ self.running /\ hist.last_call = "start"
    /\ \E t \in TaskIds : tasks[t].pc = "done"
    /\ self.stats.messages_received = MaxCount /\ self.stats.messages_parsed = MaxCount
    /\ self.stats.reconnections = MaxCount /\ self.stats.last_error # "None"

\* C17.  At every await of the loop, of async_stop and of _close_connection
\* a set connected flag means that a socket handle is held and that close
\* was not yet called on its socket; and the flag is set only by the step
\* in which a connect succeeds.
C17_ConnectedImpliesOpenSocket ==
    self.connected => self.writer # None /\ socks[self.writer] = "open"
\* The second half alone: the flag goes from clear to set only in the step
\* of a successful connect, which leaves the handles on the socket it opened.
C17_SetOnlyByConnect ==
    [][(~self.connected /\ self'.connected) =>
          /\ hist'.event = "conn_ok"
          /\ self'.writer # None /\ self'.reader = self'.writer
          /\ socks'[self'.writer] = "open"
          /\ self'.stats.reconnections = Inc(self.stats.reconnections)]_vars
\* The first half with async_stop's close left out.
C17_OutsideStopClose ==
    (self.connected /\ stop.pc # "closing") =>
        self.writer # None /\ socks[self.writer] = "open"

\* C18.  The reconnect delay changes in two ways only: it is doubled up to
\* the maximum when a backoff sleep ends, and it is back at the base after
\* every read that returned data.  The backoff sleep is entered only from a
\* failed connect or from an error of the read; the zero-byte read, the
\* dead-connection close and the staleness close change no delay and lead
\* to the next connect attempt (or to the end of the loop) without a sleep.
SleepEnds(t) == tasks[t].pc = "sleeping" /\ tasks'[t].pc # "sleeping" /\ ~tasks[t].cancelled
BackoffPcs == {"closing_err", "sleeping"}
QuickPcs == {"closing_stale", "closing_dead"}
C18_BackoffAsymmetry ==
    [][/\ self'.reconnect_delay # self.reconnect_delay =>
             \/ \E t \in TaskIds : SleepEnds(t)
             \/ hist'.event = "data"
       /\ \A t \in TaskIds :
             SleepEnds(t) =>
                 self'.reconnect_delay =
                     Min(self.reconnect_delay * 2, TELNET_MAX_RECONNECT_DELAY)
       /\ hist'.event = "data" => self'.reconnect_delay = TELNET_RECONNECT_DELAY
       /\ \A t \in TaskIds :
             /\ (tasks'[t].pc \in BackoffPcs /\ tasks[t].pc \notin BackoffPcs) =>
                    \/ tasks[t].pc = "connecting" /\ hist'.event = "conn_fail"
                    \/ tasks[t].pc = "reading" /\ self'.stats.last_error = "read_error"
             /\ (tasks'[t].pc \in QuickPcs /\ tasks[t].pc \notin QuickPcs) =>
                    \/ self'.reconnect_delay = self.reconnect_delay
                    \/ hist'.event = "data"  \* reset by the read of this very pass
             /\ (tasks[t].pc \in QuickPcs /\ tasks'[t].pc # tasks[t].pc) =>
                    /\ tasks'[t].pc \in {"connecting", "done"}
                    /\ self'.reconnect_delay = self.reconnect_delay
       /\ hist'.event \in {"eof", "dead"} =>
             /\ self'.reconnect_delay = self.reconnect_delay
             /\ \A t \in TaskIds : tasks'[t].pc \notin BackoffPcs]_vars
C18_Witness ==
    /\ hist.event = "dead" /\ self.reconnect_delay = TELNET_MAX_RECONNECT_DELAY
    /\ \E t \in TaskIds : tasks[t].pc = "closing_dead" /\ ~tasks[t].cancelled

\* C19.  Whatever the interleaving of async_start and async_stop, at most
\* one receiver task is alive, while running is set exactly one is, and a
\* step of an async_stop that was called before the last async_start
\* neither closes the socket the new task connected nor clears the
\* connected flag the new task set.
StopStep == stop.pc # "idle" /\ stop' # stop
\* running is cleared by the call of async_stop: while that call is still
\* under way a set flag was set by a later async_start, whose task then holds
\* the connection it made itself when its connect was the last step of a task.
LaterTaskConnected ==
    /\ self.running /\ self.receiver_task # None
    /\ tasks[self.receiver_task].pc = "reading"
    /\ hist.event = "conn_ok" /\ self.connected
C19_StopSparesLaterTask ==
    [][(StopStep /\ LaterTaskConnected) =>
          /\ self'.connected
          /\ self'.writer = self.writer
          /\ socks'[self.writer] = "open"]_vars
C19_OneTaskAlive ==
    /\ Cardinality(LiveTasks) <= 1
    /\ self.running => Cardinality(LiveTasks) = 1
C19_SingleLoop == []C19_OneTaskAlive /\ C19_StopSparesLaterTask

\* C20.  The client never has more than one socket open, and no socket it
\* opened is left open once no handle refers to it: before a connect
\* assigns new handles the socket of the old ones was closed, whatever the
\* path by which the connection was given up.
OpenSocks == {s \in SockIds : socks[s] = "open"}
C20_NoSocketLeak == leaked = 0 /\ Cardinality(OpenSocks) <= 1
\* In one life of the loop a socket is lost only by the connect that
\* follows a zero-byte read.
C20_LostOnlyAfterEof == [][(leaked' > leaked) => hist.event = "eof"]_vars

====
